---- MODULE Spec2Model ----
(***************************************************************************)
(* Model of the WebSocketChat React component (src/WebSocketChat.js).      *)
(*                                                                         *)
(* State: the React state (senderId, receiverId, msg), the refs (ws,       *)
(* lastSender, typingTimeout), the WebSocket objects the component has     *)
(* created, the timers it has handed to the runtime, and its outputs.      *)
(* Handlers created during a render close over that render's senderId /    *)
(* receiverId / msg; a timer therefore carries the values of the render    *)
(* that scheduled it.  Time is not measured: a pending timer runs at some  *)
(* later step; the send timers all have the same delay and so run in the   *)
(* order they were set.                                                    *)
(*                                                                         *)
(* The component only ever appends to its log and never reads back what    *)
(* it sent, so of these outputs the model keeps what the most recent step  *)
(* added: logged (items passed to setLog), sent (frames passed to          *)
(* ws.current.send, with the url of the socket that took them) and         *)
(* uncaught (the step ended in an exception no handler caught).  op names  *)
(* the handler that ran in the most recent step and its input: the         *)
(* senderId before a change, the inbound payload, whether a notifyTyping   *)
(* call found an idle timer pending, and for the idle timer whether both   *)
(* identities it carried were set and whether it ran right after a call    *)
(* that restarted it.                                                      *)
(* ws is the WebSocket ws.current holds (Null: none); others are the       *)
(* WebSockets it held before and that can still raise an event.            *)
(***************************************************************************)
EXTENDS Integers, Sequences, FiniteSets, Bags, TLC

VARIABLES senderId, receiverId, msg, logged, ws, others, lastSender,
          sendTimers, typingTimers, sent, uncaught, mounted, op

vars == <<senderId, receiverId, msg, logged, ws, others, lastSender,
          sendTimers, typingTimers, sent, uncaught, mounted, op>>

\* ---- bounds of the exploration ----
MaxSockets == 2
MaxPending == 1

\* ---- WebSocket readyState values ----
OPEN == 1
CONNECTING == OPEN - 1
CLOSING == OPEN + 1
CLOSED == OPEN + 2

\* ---- input alphabets ----
Ids == {"", "a", "b"}
ReceiverIds == {"", "b"}
Msgs == {"", "hi"}
Payloads == {"oops", "null", "{}", "typing:b", "msg:a"}

\* JSON.parse on the inbound frames of the alphabet: a syntax error, the
\* value null, or an object with the listed keys.
JSONparse(data) ==
  CASE data = "oops"     -> [ok |-> FALSE]
    [] data = "null"     -> [ok |-> TRUE, isNull |-> TRUE]
    [] data = "{}"       -> [ok |-> TRUE, isNull |-> FALSE,
                             obj |-> [typing |-> FALSE, sender_id |-> "", msg |-> ""]]
    [] data = "typing:b" -> [ok |-> TRUE, isNull |-> FALSE,
                             obj |-> [typing |-> TRUE, sender_id |-> "b", msg |-> ""]]
    [] data = "msg:a"    -> [ok |-> TRUE, isNull |-> FALSE,
                             obj |-> [typing |-> FALSE, sender_id |-> "a", msg |-> "hi"]]

\* ---- the channel ----
\* the null ref
Null == [url |-> "", readyState |-> -1]

wsOpen == ws # Null /\ ws.readyState = OPEN

Active(s) == s.readyState \in {CONNECTING, OPEN}

refs == [ws |-> ws, others |-> others, lastSender |-> lastSender]

\* the WebSockets that exist and can still raise an event or be reached
Count(st) == BagCardinality(st.others) + (IF st.ws = Null THEN 0 ELSE 1)

\* mutant of close: the call has no effect
close_noop(s) == s

\* WebSocket.close(): a connecting or open socket starts closing
close(s) ==
  IF s = Null THEN Null
  ELSE [s EXCEPT !.readyState = IF @ \in {CONNECTING, OPEN} THEN CLOSING ELSE @]

\* ws.current = new window.WebSocket(WS_BASE_URL + sid): the socket the ref
\* held is no longer reachable; it stays among others until its close event
NewSocket(sid, st) ==
  [st EXCEPT !.ws = [url |-> sid, readyState |-> CONNECTING],
             !.others = IF st.ws = Null \/ st.ws.readyState = CLOSED THEN @
                        ELSE @ (+) SetToBag({st.ws})]

\* mutant of connectWS: no test for an empty senderId
connectWS_noEmpty(sid, st) ==
  IF st.ws # Null /\ st.ws.readyState = OPEN /\ st.lastSender = sid THEN st
  ELSE [NewSocket(sid, [st EXCEPT !.ws = close(st.ws)]) EXCEPT !.lastSender = sid]

\* mutant of connectWS: no test for a channel already open for sid
connectWS_always(sid, st) ==
  IF sid = "" THEN st
  ELSE [NewSocket(sid, [st EXCEPT !.ws = close(st.ws)]) EXCEPT !.lastSender = sid]

\* connectWS of a render whose senderId is sid, on the refs st
connectWS(sid, st) ==
  IF sid = "" THEN st
  ELSE IF st.ws # Null /\ st.ws.readyState = OPEN /\ st.lastSender = sid THEN st
  ELSE [NewSocket(sid, [st EXCEPT !.ws = close(st.ws)]) EXCEPT !.lastSender = sid]

\* the model has room for the socket connectWS(sid, st) may create
Room(sid, st) == Count(connectWS(sid, st)) <= MaxSockets

\* ---- handlers of a socket ----
Text(s) == <<"text", s>>

onopen == <<Text("WebSocket connected")>>

\* the try block of onmessage; sid is the senderId of the render that
\* created the socket.  JSON.parse throws on a syntax error, and reading
\* a property of null throws.
tryBlock(sid, data) ==
  LET p == JSONparse(data) IN
  IF ~p.ok THEN [threw |-> TRUE, items |-> <<>>]
  ELSE IF p.isNull THEN [threw |-> TRUE, items |-> <<>>]
  ELSE IF p.obj.typing /\ p.obj.sender_id # ""
       THEN [threw |-> FALSE, items |-> << <<"i", p.obj.sender_id, " is typing...">> >>]
  ELSE IF p.obj.msg # "" /\ p.obj.sender_id # ""
       THEN [threw |-> FALSE,
             items |-> << <<"b", IF p.obj.sender_id = sid THEN "You" ELSE p.obj.sender_id, ":">>,
                          Text(p.obj.msg) >>]
  ELSE [threw |-> FALSE, items |-> <<>>]

\* mutant of onmessage: no catch clause
onmessage_noCatch(sid, data) == tryBlock(sid, data)

onmessage(sid, data) ==
  IF tryBlock(sid, data).threw
  THEN [threw |-> FALSE, items |-> <<Text(data)>>]
  ELSE tryBlock(sid, data)

onclose == <<Text("WebSocket closed")>>

\* ---- sending ----
closure == [senderId |-> senderId, receiverId |-> receiverId, msg |-> msg]

MessageEvent(c) ==
  [sender_id |-> c.senderId, receiver_id |-> c.receiverId, msg |-> c.msg, typing |-> FALSE]

TypingEvent(c) ==
  [sender_id |-> c.senderId, receiver_id |-> c.receiverId, typing |-> TRUE]

\* ws.current.send(payload): a TypeError on a null ref, an InvalidStateError
\* on a connecting socket, a frame on an open one, nothing on a closing or
\* closed one
send(data) ==
  IF ws = Null THEN [threw |-> TRUE, frames |-> <<>>]
  ELSE IF ws.readyState = CONNECTING THEN [threw |-> TRUE, frames |-> <<>>]
  ELSE IF ws.readyState = OPEN
       THEN [threw |-> FALSE, frames |-> <<[url |-> ws.url, data |-> data]>>]
  ELSE [threw |-> FALSE, frames |-> <<>>]

\* mutant of sendMsg: the retry is scheduled again after the send
sendMsg_rearm(c, timers) ==
  IF ws = Null \/ ws.readyState # OPEN
  THEN /\ Room(c.senderId, refs)
       /\ Len(timers) < MaxPending
       /\ ws' = connectWS(c.senderId, refs).ws
       /\ others' = connectWS(c.senderId, refs).others
       /\ lastSender' = connectWS(c.senderId, refs).lastSender
       /\ sendTimers' = Append(timers, c)
       /\ sent' = <<>>
       /\ uncaught' = FALSE
       /\ UNCHANGED msg
  ELSE /\ Len(timers) < MaxPending
       /\ sent' = send(MessageEvent(c)).frames
       /\ uncaught' = send(MessageEvent(c)).threw
       /\ msg' = ""
       /\ sendTimers' = Append(timers, c)
       /\ UNCHANGED <<ws, others, lastSender>>

\* sendMsg of the render c, the runtime holding the send timers `timers`
sendMsg(c, timers) ==
  IF ws = Null \/ ws.readyState # OPEN
  THEN /\ Room(c.senderId, refs)
       /\ Len(timers) < MaxPending
       /\ ws' = connectWS(c.senderId, refs).ws
       /\ others' = connectWS(c.senderId, refs).others
       /\ lastSender' = connectWS(c.senderId, refs).lastSender
       /\ sendTimers' = Append(timers, c)
       /\ sent' = <<>>
       /\ uncaught' = FALSE
       /\ UNCHANGED msg
  ELSE /\ sent' = send(MessageEvent(c)).frames
       /\ uncaught' = send(MessageEvent(c)).threw
       /\ msg' = ""
       /\ sendTimers' = timers
       /\ UNCHANGED <<ws, others, lastSender>>

\* mutant of clearTimeout: the pending timer is left running
clearTimeout_none(timers) == timers

\* ---- notifyTyping ----
\* clearTimeout(typingTimeout.current): cur marks the timer the ref holds
clearTimeout(timers) == SelectSeq(timers, LAMBDA t : ~t.cur)

notifyTyping(c) ==
  Append(clearTimeout(typingTimers),
         [senderId |-> c.senderId, receiverId |-> c.receiverId, cur |-> TRUE])

\* mutant of typingCallback: the identities are not tested
typingCallback_noIds(t) ==
  IF ws = Null \/ ws.readyState # OPEN
  THEN [threw |-> FALSE, frames |-> <<>>]
  ELSE send(TypingEvent(t))

\* mutant of typingCallback: the channel is not tested
typingCallback_noReady(t) ==
  IF t.senderId = "" \/ t.receiverId = ""
  THEN [threw |-> FALSE, frames |-> <<>>]
  ELSE send(TypingEvent(t))

\* the callback of the idle timer t
typingCallback(t) ==
  IF ws = Null \/ ws.readyState # OPEN \/ t.senderId = "" \/ t.receiverId = ""
  THEN [threw |-> FALSE, frames |-> <<>>]
  ELSE send(TypingEvent(t))

\* ---- the effect on senderId ----
\* if (ws.current) ws.current.close()
cleanup == [refs EXCEPT !.ws = close(ws)]

useEffect(sid) == connectWS(sid, cleanup)

\* ---- events of the sockets ----
Handles ==
  (IF ws = Null THEN {} ELSE {[cur |-> TRUE, s |-> ws]})
    \cup {[cur |-> FALSE, s |-> x] : x \in BagToSet(others)}

\* the socket h moves to readyState rs; a closed socket the ref does not
\* hold is gone
Moved(h, rs) ==
  IF h.cur THEN [refs EXCEPT !.ws.readyState = rs]
  ELSE [refs EXCEPT !.others = (@ (-) SetToBag({h.s}))
                      (+) (IF rs = CLOSED THEN EmptyBag
                           ELSE SetToBag({[h.s EXCEPT !.readyState = rs]}))]

Init ==
  /\ senderId = ""
  /\ receiverId = ""
  /\ msg = ""
  /\ logged = <<>>
  /\ ws = Null
  /\ others = EmptyBag
  /\ lastSender = ""
  /\ sendTimers = <<>>
  /\ typingTimers = <<>>
  /\ sent = <<>>
  /\ uncaught = FALSE
  /\ mounted = TRUE
  /\ op = [name |-> "init", arg |-> ""]

\* ---- actions ----
SetSenderId(v) ==
  /\ mounted
  /\ v # senderId
  /\ Room(v, cleanup)
  /\ ws' = useEffect(v).ws
  /\ others' = useEffect(v).others
  /\ lastSender' = useEffect(v).lastSender
  /\ senderId' = v
  /\ logged' = <<>>
  /\ sent' = <<>>
  /\ uncaught' = FALSE
  /\ op' = [name |-> "SetSenderId", arg |-> senderId]
  /\ UNCHANGED <<receiverId, msg, sendTimers, typingTimers, mounted>>

SetReceiverId(v) ==
  /\ mounted
  /\ v # receiverId
  /\ receiverId' = v
  /\ logged' = <<>>
  /\ sent' = <<>>
  /\ uncaught' = FALSE
  /\ op' = [name |-> "SetReceiverId", arg |-> ""]
  /\ UNCHANGED <<senderId, msg, ws, others, lastSender, sendTimers, typingTimers, mounted>>

\* an input event on the draft field: onInput (notifyTyping) and onChange (setMsg)
InputMsg(v) ==
  /\ mounted
  /\ typingTimers' = notifyTyping(closure)
  /\ msg' = v
  /\ logged' = <<>>
  /\ sent' = <<>>
  /\ uncaught' = FALSE
  /\ op' = [name |-> "InputMsg", arg |-> typingTimers # <<>>]
  /\ UNCHANGED <<senderId, receiverId, ws, others, lastSender, sendTimers, mounted>>

SendClick ==
  /\ mounted
  /\ sendMsg(closure, sendTimers)
  /\ logged' = <<>>
  /\ op' = [name |-> "SendClick", arg |-> ""]
  /\ UNCHANGED <<senderId, receiverId, typingTimers, mounted>>

SendRetry ==
  /\ sendTimers # <<>>
  /\ sendMsg(Head(sendTimers), Tail(sendTimers))
  /\ logged' = <<>>
  /\ op' = [name |-> "SendRetry", arg |-> ""]
  /\ UNCHANGED <<senderId, receiverId, typingTimers, mounted>>

TypingFire ==
  /\ typingTimers # <<>>
  /\ sent' = typingCallback(Head(typingTimers)).frames
  /\ uncaught' = typingCallback(Head(typingTimers)).threw
  /\ typingTimers' = Tail(typingTimers)
  /\ logged' = <<>>
  /\ op' = [name |-> "TypingFire",
            arg |-> [ids |-> Head(typingTimers).senderId # "" /\ Head(typingTimers).receiverId # "",
                     restarted |-> op.name = "InputMsg" /\ op.arg]]
  /\ UNCHANGED <<senderId, receiverId, msg, ws, others, lastSender, sendTimers, mounted>>

OnOpen(h) ==
  /\ h.s.readyState = CONNECTING
  /\ ws' = Moved(h, OPEN).ws
  /\ others' = Moved(h, OPEN).others
  /\ logged' = onopen
  /\ sent' = <<>>
  /\ uncaught' = FALSE
  /\ op' = [name |-> "OnOpen", arg |-> ""]
  /\ UNCHANGED <<senderId, receiverId, msg, lastSender, sendTimers, typingTimers, mounted>>

OnMessage(h, data) ==
  /\ h.s.readyState = OPEN
  /\ logged' = onmessage(h.s.url, data).items
  /\ uncaught' = onmessage(h.s.url, data).threw
  /\ sent' = <<>>
  /\ op' = [name |-> "OnMessage", arg |-> data]
  /\ UNCHANGED <<senderId, receiverId, msg, ws, others, lastSender, sendTimers, typingTimers,
                 mounted>>

\* mutant of OnClose: the handler opens the channel again
OnClose_reconnect(h) ==
  /\ h.s.readyState \in {CONNECTING, OPEN, CLOSING}
  /\ ws' = IF h.cur THEN [url |-> h.s.url, readyState |-> CONNECTING] ELSE ws
  /\ others' = Moved(h, CLOSED).others
  /\ logged' = onclose
  /\ sent' = <<>>
  /\ uncaught' = FALSE
  /\ op' = [name |-> "OnClose", arg |-> ""]
  /\ UNCHANGED <<senderId, receiverId, msg, lastSender, sendTimers, typingTimers, mounted>>

\* the close event: the closing handshake completes, or the peer or the
\* network ends a connecting or open socket
OnClose(h) ==
  /\ h.s.readyState \in {CONNECTING, OPEN, CLOSING}
  /\ ws' = Moved(h, CLOSED).ws
  /\ others' = Moved(h, CLOSED).others
  /\ logged' = onclose
  /\ sent' = <<>>
  /\ uncaught' = FALSE
  /\ op' = [name |-> "OnClose", arg |-> ""]
  /\ UNCHANGED <<senderId, receiverId, msg, lastSender, sendTimers, typingTimers, mounted>>

Unmount ==
  /\ mounted
  /\ mounted' = FALSE
  /\ ws' = cleanup.ws
  /\ logged' = <<>>
  /\ sent' = <<>>
  /\ uncaught' = FALSE
  /\ op' = [name |-> "Unmount", arg |-> ""]
  /\ UNCHANGED <<senderId, receiverId, msg, others, lastSender, sendTimers, typingTimers>>

\* connectWS called on the current render (the component's connect operation)
Connect ==
  /\ mounted
  /\ Room(senderId, refs)
  /\ ws' = connectWS(senderId, refs).ws
  /\ others' = connectWS(senderId, refs).others
  /\ lastSender' = connectWS(senderId, refs).lastSender
  /\ logged' = <<>>
  /\ sent' = <<>>
  /\ uncaught' = FALSE
  /\ op' = [name |-> "Connect", arg |-> ""]
  /\ UNCHANGED <<senderId, receiverId, msg, sendTimers, typingTimers, mounted>>

Next ==
  \/ \E v \in Ids : SetSenderId(v)
  \/ \E v \in ReceiverIds : SetReceiverId(v)
  \/ \E v \in Msgs : InputMsg(v)
  \/ SendClick
  \/ SendRetry
  \/ TypingFire
  \/ \E h \in Handles : OnOpen(h)
  \/ \E h \in Handles, data \in Payloads : OnMessage(h, data)
  \/ \E h \in Handles : OnClose(h)
  \/ Unmount

Spec == Init /\ [][Next]_vars

\* the component with its connect operation open to the caller
NextConnect == Next \/ Connect

SpecConnect == Init /\ [][NextConnect]_vars

\* ---- a send left to run its course ----
\* no retry of a send is pending: the user acts only then
UserIdle == sendTimers = <<>>

\* the server accepts a connection attempt
Accept == \E h \in Handles : OnOpen(h)

\* the close handshake of a socket the client closed completes
Closed == \E h \in Handles : h.s.readyState = CLOSING /\ OnClose(h)

\* ws.current is not a socket the last step created.  A step named here
\* that leaves ws.current connecting has just assigned it a new socket.
Settled == op.name \notin {"SetSenderId", "SendClick", "SendRetry"}

\* The user leaves the component alone while a send is pending, and the
\* server neither refuses nor drops a connection.
NextLive ==
  \/ UserIdle /\ \E v \in Ids : SetSenderId(v)
  \/ UserIdle /\ \E v \in ReceiverIds : SetReceiverId(v)
  \/ UserIdle /\ \E v \in Msgs : InputMsg(v)
  \/ UserIdle /\ SendClick
  \/ UserIdle /\ Unmount
  \/ SendRetry
  \/ TypingFire
  \/ Accept
  \/ \E h \in Handles, data \in Payloads : OnMessage(h, data)
  \/ Closed

\* Timers fire and close handshakes complete.  The server accepts every
\* connection attempt after a finite delay: a socket that stays connecting
\* is opened.  Sockets carry no identity here, so the attempt is followed
\* through Settled: Settled /\ Accept stays enabled from some point on
\* exactly when one and the same socket stays connecting from then on.
SpecLive ==
  /\ Init
  /\ [][NextLive]_vars
  /\ WF_vars(SendRetry)
  /\ WF_vars(TypingFire)
  /\ WF_vars(Closed)
  /\ WF_vars(Settled /\ Accept)

\* ---- properties ----
\* the number of connecting or open sockets
NumActive ==
  (IF ws # Null /\ Active(ws) THEN 1 ELSE 0)
    + BagCardinality([x \in {y \in BagToSet(others) : Active(y)} |-> others[x]])

\* the step assigned a new socket to ws.current
Created ==
  /\ ws'.readyState = CONNECTING
  /\ \/ ws.readyState # CONNECTING
     \/ ws.url # ws'.url
     \/ BagCardinality(others') > BagCardinality(others)

\* C1: a sendMsg that finds no open channel schedules exactly one retry, and
\* a retry that still finds no open channel drops the send and schedules no
\* further retry.
C1_SingleRetry ==
  [][ /\ (op'.name = "SendClick" /\ ~wsOpen)
           => (Len(sendTimers') = Len(sendTimers) + 1 /\ sent' = <<>>)
      /\ (op'.name = "SendRetry" /\ ~wsOpen)
           => (Len(sendTimers') = Len(sendTimers) - 1 /\ sent' = <<>>) ]_vars

\* C2: at most one socket is connecting or open, and a connecting or open
\* socket is addressed by the current senderId.
C2_OneChannelForIdentity ==
  /\ NumActive <= 1
  /\ (ws # Null /\ Active(ws)) => ws.url = senderId
  /\ \A x \in BagToSet(others) : Active(x) => x.url = senderId

\* C3: connectWS called again for the identity whose channel is open changes
\* neither the socket, nor the sockets left behind, nor lastSender: one open
\* channel remains.
C3_ConnectIdempotent ==
  [][ (op'.name = "Connect" /\ senderId # "" /\ wsOpen /\ lastSender = senderId)
        => /\ ws' = ws
           /\ others' = others
           /\ lastSender' = lastSender
           /\ ws'.readyState = OPEN
           /\ \A x \in BagToSet(others') : x.readyState # OPEN ]_vars

C3_Witness ==
  /\ op.name = "Connect"
  /\ senderId # ""
  /\ wsOpen
  /\ lastSender = senderId
  /\ ws.url = senderId

\* C4: a change of senderId from a to b, both non-empty, closes the socket
\* ws.current held, leaves no earlier socket connecting or open, assigns one
\* new connecting socket addressed by b and records b in lastSender.
C4_IdentityChange ==
  [][ (op'.name = "SetSenderId" /\ senderId # "" /\ senderId' # "" /\ senderId' # senderId)
        => /\ ws' = [url |-> senderId', readyState |-> CONNECTING]
           /\ lastSender' = senderId'
           /\ \A x \in BagToSet(others') : ~Active(x)
           /\ others' = IF ws = Null \/ ws.readyState = CLOSED THEN others
                        ELSE others (+) SetToBag({[ws EXCEPT !.readyState = CLOSING]}) ]_vars

C4_Witness ==
  /\ op.name = "SetSenderId"
  /\ op.arg = "a"
  /\ senderId = "b"
  /\ ws = [url |-> "b", readyState |-> CONNECTING]
  /\ lastSender = "b"
  /\ BagIn([url |-> "a", readyState |-> CLOSING], others)

\* C5: a notifyTyping call sends nothing and leaves exactly one idle timer
\* pending; the timer, running with the channel open and both identities
\* set, sends exactly one Typing Event and leaves no timer pending; a Typing
\* Event is sent by no other step.
C5_Debounce ==
  [][ /\ op'.name = "InputMsg" => (sent' = <<>> /\ Len(typingTimers') = 1)
      /\ (/\ op'.name = "TypingFire"
          /\ wsOpen
          /\ Head(typingTimers).senderId # ""
          /\ Head(typingTimers).receiverId # "")
           => /\ sent' = <<[url |-> ws.url, data |-> TypingEvent(Head(typingTimers))]>>
              /\ typingTimers' = <<>>
      /\ (sent' # <<>> /\ sent'[1].data.typing) => op'.name = "TypingFire" ]_vars

C5_Witness ==
  /\ op.name = "TypingFire"
  /\ op.arg.restarted
  /\ Len(sent) = 1
  /\ sent[1].data.typing
  /\ typingTimers = <<>>

\* C6: the message handler ends in no uncaught exception and changes neither
\* the sockets nor the identities nor the timers; for a payload JSON.parse
\* rejects it logs the payload's text.
C6_MalformedInbound ==
  [][ op'.name = "OnMessage"
        => /\ ~uncaught'
           /\ UNCHANGED <<ws, others, lastSender, senderId, receiverId, msg,
                          sendTimers, typingTimers, mounted>>
           /\ ~JSONparse(op'.arg).ok => logged' = <<Text(op'.arg)>> ]_vars

C6_Witness ==
  /\ op.name = "OnMessage"
  /\ op.arg = "oops"
  /\ logged = <<Text("oops")>>
  /\ ~uncaught

\* C7: the close handler logs the "closed" notice, creates no socket and
\* leaves the ref and lastSender as they were; with no send retry pending a
\* socket is created only by a change of senderId or a click on Send.
C7_NoAutoReconnect ==
  [][ /\ op'.name = "OnClose"
           => /\ logged' = <<Text("WebSocket closed")>>
              /\ ~Created
              /\ ws' = ws \/ ws' = [ws EXCEPT !.readyState = CLOSED]
              /\ Count([ws |-> ws', others |-> others']) <= Count(refs)
              /\ lastSender' = lastSender
      /\ (Created /\ sendTimers = <<>>) => op'.name \in {"SetSenderId", "SendClick"} ]_vars

C7_Witness ==
  /\ op.name = "OnClose"
  /\ ws # Null
  /\ ws.readyState = CLOSED
  /\ sendTimers = <<>>
  /\ logged = <<Text("WebSocket closed")>>

\* C8: every frame sent carries either a non-empty msg and no typing flag,
\* or the typing flag and no msg.
C8_OnePayload ==
  \A k \in 1..Len(sent) :
    IF sent[k].data.typing THEN "msg" \notin DOMAIN sent[k].data
    ELSE "msg" \in DOMAIN sent[k].data /\ sent[k].data.msg # ""

\* C9: an idle timer set by a notifyTyping call with an empty sender or
\* receiver identity sends nothing, and no Typing Event carries an empty
\* identity.
C9_TypingNeedsIds ==
  /\ (op.name = "TypingFire" /\ ~op.arg.ids) => sent = <<>>
  /\ \A k \in 1..Len(sent) :
       sent[k].data.typing => (sent[k].data.sender_id # "" /\ sent[k].data.receiver_id # "")

C9_Witness ==
  /\ op.name = "TypingFire"
  /\ ~op.arg.ids
  /\ wsOpen
  /\ sent = <<>>

\* C10: an idle timer that runs while ws.current is null or not open sends
\* nothing, ends in no uncaught exception, sets no timer and leaves the
\* sockets and refs as they were.
C10_TimerWithoutChannel ==
  [][ (op'.name = "TypingFire" /\ ~wsOpen)
        => /\ sent' = <<>>
           /\ ~uncaught'
           /\ typingTimers' = Tail(typingTimers)
           /\ UNCHANGED <<ws, others, lastSender, sendTimers>> ]_vars

C10_Witness ==
  /\ op.name = "TypingFire"
  /\ op.arg.ids
  /\ ws # Null
  /\ ws.readyState = CONNECTING
  /\ sent = <<>>
  /\ ~uncaught
\* C11: connectWS called by a render whose senderId is empty (the connect
\* operation, or a sendMsg that finds no open channel) creates no socket,
\* closes none, and leaves ws.current and lastSender as they were.
C11_EmptyIdentityNoop ==
  [][ (\/ op'.name = "Connect" /\ senderId = ""
       \/ op'.name = "SendClick" /\ senderId = "" /\ ~wsOpen
       \/ op'.name = "SendRetry" /\ Head(sendTimers).senderId = "" /\ ~wsOpen)
        => /\ ws' = ws
           /\ others' = others
           /\ lastSender' = lastSender
           /\ ~Created ]_vars

C11_Witness ==
  /\ op.name = "Connect"
  /\ senderId = ""
  /\ ws = [url |-> "a", readyState |-> CLOSING]
  /\ lastSender = "a"

\* C12: the message handler, given a Message Event, logs a notice labelled
\* "You" exactly when the event's sender_id is the current senderId and
\* labelled with the sender_id otherwise, followed by the text; given a
\* Typing Event it logs the "is typing" notice of the event's sender_id.
C12_InboundNotice ==
  op.name = "OnMessage" =>
    LET p == JSONparse(op.arg) IN
    (p.ok /\ ~p.isNull /\ p.obj.sender_id # "") =>
      /\ p.obj.typing => logged = << <<"i", p.obj.sender_id, " is typing...">> >>
      /\ (~p.obj.typing /\ p.obj.msg # "")
           => logged = << <<"b", IF p.obj.sender_id = senderId THEN "You"
                                ELSE p.obj.sender_id, ":">>,
                          Text(p.obj.msg) >>

\* C13: every frame sent, Message or Typing Event, carries the sender_id the
\* socket it goes out on was opened for.
C13_SenderIsChannelIdentity ==
  \A k \in 1..Len(sent) : sent[k].data.sender_id = sent[k].url

\* C15: once the component is unmounted no socket is connecting or open and
\* no frame is sent.
C15_QuietAfterUnmount ==
  ~mounted => (NumActive = 0 /\ sent = <<>>)

\* C16: a sendMsg call, from a click or from a retry timer, either sends its
\* Message Event once and leaves no timer of its own behind, or sends nothing
\* and leaves exactly one retry timer for itself; no other step sends a
\* Message Event or touches the retry timers.  So the pending retries are the
\* clicks not yet transmitted, and each click is transmitted at most once.
C16_AtMostOneTransmission ==
  [][ /\ op'.name = "SendClick"
           => \/ /\ sent' = <<[url |-> ws.url, data |-> MessageEvent(closure)]>>
                 /\ sendTimers' = sendTimers
              \/ /\ sent' = <<>>
                 /\ sendTimers' = Append(sendTimers, closure)
      /\ op'.name = "SendRetry"
           => \/ /\ sent' = <<[url |-> ws.url, data |-> MessageEvent(Head(sendTimers))]>>
                 /\ sendTimers' = Tail(sendTimers)
              \/ /\ sent' = <<>>
                 /\ sendTimers' = Append(Tail(sendTimers), Head(sendTimers))
      /\ op'.name \notin {"SendClick", "SendRetry"}
           => /\ sendTimers' = sendTimers
              /\ \A k \in 1..Len(sent') : sent'[k].data.typing ]_vars

C16_Witness ==
  /\ op.name = "SendRetry"
  /\ Len(sent) = 1
  /\ ~sent[1].data.typing
  /\ sent[1].data.msg = "hi"
  /\ sendTimers = <<>>

\* C14: a click on Send made with a non-empty senderId while no channel is
\* open leads to the transmission of a Message Event.
C14_EventuallySent ==
  (/\ op.name = "SendClick"
   /\ sendTimers # <<>>
   /\ Head(sendTimers).senderId # "")
    ~> (/\ sent # <<>>
        /\ ~sent[1].data.typing)

====
